---- MODULE Spec2Model ----
(***************************************************************************)
(* Model of the placement engine of BinPacker_Cloud_App                    *)
(* (src/src/algorithm/bin_packer_v3.py): the point frontier, the           *)
(* collision / support / weight checkers and the greedy orchestrator.      *)
(*                                                                         *)
(* Lengths are integers counting ticks.  Point3D compares coordinates      *)
(* rounded to 3 decimals and get_next_point sorts on coordinates rounded   *)
(* to 6 decimals: round3 rounds to the nearest multiple of EqQuantum       *)
(* ticks, round6 to the nearest multiple of KeyQuantum ticks.  KeyQuantum  *)
(* divides EqQuantum as 10^-6 divides 10^-3; the model keeps the two a     *)
(* factor of two apart instead of a thousand, which is enough for lengths  *)
(* that differ by less than the finer quantum and still lie on the two     *)
(* sides of a rounding boundary of the coarser one.  Items that come from  *)
(* the persistence layer have integer millimetres, whole multiples of      *)
(* EqQuantum ticks (Unit); a request to /api/v1/optimize carries any       *)
(* positive lengths.                                                       *)
(* A point is <<x, y, z>>, a rotation is <<l, w, h>>.                       *)
(***************************************************************************)
EXTENDS Integers, Sequences, FiniteSets, TLC

(* ------------------------------ bounds --------------------------------- *)
\* longest general item list handed to pack_items
MaxItems == 3
\* longest list of identical items handed to pack_items
MaxCopies == 4
\* number of pack_items calls the driver makes
MaxCalls == 2

(* ------------------------- program constants --------------------------- *)
\* ticks in the precision of Point3D.__eq__ and __hash__: round(v, 3)
EqQuantum == 6
\* ticks in the precision of the scan key of get_next_point: round(v, 6)
KeyQuantum == 3
\* ticks in one millimetre
Unit == EqQuantum

max_stack_height == 3
max_weight_per_stack == 1000
DefaultPriority == 999

(* ------------------------------ inputs --------------------------------- *)
STACKABLE == "stackable"
SEMI_STACKABLE == "semi_stackable"
UNSTACKABLE == "unstackable"

\* destination labels, listed in ascending lexicographic order
Destinations == <<"", "A", "B">>

\* an item descriptor with its lengths given in ticks
FineItemType(l, w, h, wt, st, dest) ==
    [length |-> l, width |-> w, height |-> h, weight |-> wt,
     can_rotate |-> TRUE, destination |-> dest, stackability |-> st]

\* an item descriptor with its lengths given in millimetres
ItemType(l, w, h, wt, st, dest) ==
    FineItemType(l * Unit, w * Unit, h * Unit, wt, st, dest)

\* three lengths given in millimetres
Dims(l, w, h) == <<l * Unit, w * Unit, h * Unit>>

\* truck dimensions given in millimetres
Truck(l, w, h) == Dims(l, w, h)

Catalogue ==
    { ItemType(1, 1, 1, 100, STACKABLE, ""),
      ItemType(1, 1, 1, 600, STACKABLE, "A"),
      ItemType(2, 1, 2, 200, STACKABLE, ""),
      ItemType(2, 2, 1, 100, STACKABLE, "B"),
      ItemType(1, 2, 1, 100, SEMI_STACKABLE, ""),
      ItemType(2, 1, 2, 100, SEMI_STACKABLE, ""),
      ItemType(1, 1, 1, 100, UNSTACKABLE, ""),
      ItemType(2, 1, 1, 1100, STACKABLE, "") }

Trucks == { Truck(2, 2, 3), Truck(1, 1, 4), Truck(3, 1, 1) }

\* an Item: a catalogue descriptor with the identifier given by the caller
MkItem(t, id) ==
    [id |-> id, length |-> t.length, width |-> t.width, height |-> t.height,
     weight |-> t.weight, can_rotate |-> t.can_rotate,
     destination |-> t.destination, stackability |-> t.stackability]

GeneralLists ==
    UNION { { [i \in 1..n |-> MkItem(f[i], i)] : f \in [1..n -> Catalogue] }
            : n \in 0..MaxItems }

UniformLists ==
    { [i \in 1..n |-> MkItem(t, i)] : t \in Catalogue, n \in 1..MaxCopies }

InputLists == GeneralLists \cup UniformLists

\* items that differ in nothing but the destination label
LabelledTypes ==
    { ItemType(1, 1, 1, 100, STACKABLE, Destinations[d]) :
        d \in 1..Len(Destinations) }

LabelledLists ==
    UNION { { [i \in 1..n |-> MkItem(f[i], i)] : f \in [1..n -> LabelledTypes] }
            : n \in 2..MaxItems }

\* test_simple_packing, a millimetre standing for 100 mm: truck (10, 2.5, 2.5),
\* box1 (1.0, 0.8, 0.6, 50 kg) and box2 (0.5, 0.5, 0.5, 25 kg)
SimpleTruck == Truck(100, 25, 25)
Box1 == ItemType(10, 8, 6, 50, STACKABLE, "")
Box2 == ItemType(5, 5, 5, 25, STACKABLE, "")
SimpleLists ==
    { <<MkItem(Box1, 1), MkItem(Box2, 2)>>, <<MkItem(Box2, 1), MkItem(Box1, 2)>> }

\* test_items_too_large_for_truck: truck (1, 1, 1) and a box (2, 2, 2)
SmallTruck == Truck(1, 1, 1)
LargeBox == ItemType(2, 2, 2, 100, STACKABLE, "")

\* a truck without volume
FlatTruck == Truck(2, 2, 0)

\* the <<truck, item list>> pairs a caller constructs a packer for and
\* hands to pack_items
Inputs ==
    (Trucks \X InputLists)
      \cup ({Truck(2, 2, 3)} \X LabelledLists)
      \cup ({SimpleTruck} \X SimpleLists)
      \cup ({SmallTruck} \X
               { <<MkItem(LargeBox, 1)>>,
                 <<MkItem(LargeBox, 1), MkItem(ItemType(1, 1, 1, 100, STACKABLE, ""), 2)>> })
      \cup ({FlatTruck} \X { l \in GeneralLists : Len(l) <= 1 })

(* --------------------------- generic helpers --------------------------- *)
Range(s) == { s[i] : i \in 1..Len(s) }

Max2(a, b) == IF a >= b THEN a ELSE b
Min2(a, b) == IF a <= b THEN a ELSE b

RECURSIVE SumFirst(_, _)
SumFirst(s, n) == IF n = 0 THEN 0 ELSE SumFirst(s, n - 1) + s[n]

\* sum(...) over a list
SumSeq(s) == SumFirst(s, Len(s))

\* lexicographic order on equally long integer tuples (Python tuple "<")
TupleLess(a, b) ==
    \E i \in 1..Len(a) : a[i] < b[i] /\ \A j \in 1..(i - 1) : a[j] = b[j]

\* list.sort / sorted: stable sort of s, where key[i] is the integer-tuple
\* key of s[i]
StableSortBy(s, key) ==
    LET n == Len(s)
        Before(j, i) == \/ TupleLess(key[j], key[i])
                        \/ (key[j] = key[i] /\ j < i)
        Pos(i) == 1 + Cardinality({ j \in 1..n : Before(j, i) })
    IN  IF key = <<>> THEN s
        ELSE [k \in 1..n |-> s[CHOOSE i \in 1..n : Pos(i) = k]]

\* list.remove(x): drop the first element equal to x
RemoveFirst(s, x) ==
    LET i == CHOOSE k \in 1..Len(s) : s[k] = x /\ \A j \in 1..(k - 1) : s[j] # x
    IN  [k \in 1..(Len(s) - 1) |-> IF k < i THEN s[k] ELSE s[k + 1]]

\* x in list
InList(x, s) == \E i \in 1..Len(s) : s[i] = x

(* ------------------------------- Item ---------------------------------- *)
Volume(item) == item.length * item.width * item.height

\* faulty variant: an item whose can_rotate flag is off keeps its orientation
get_rotations_by_flag(item) ==
    IF item.can_rotate
    THEN << <<item.length, item.width, item.height>>,
            <<item.width, item.length, item.height>> >>
    ELSE << <<item.length, item.width, item.height>>,
            <<item.length, item.width, item.height>> >>

\* faulty variant: the second orientation tips the item onto its side
get_rotations_tipped(item) ==
    << <<item.length, item.width, item.height>>,
       <<item.height, item.width, item.length>> >>

get_rotations(item) ==
    << <<item.length, item.width, item.height>>,
       <<item.width, item.length, item.height>> >>

(* ---------------------------- PlacedItem ------------------------------- *)
PlacedItem(item, position, rotation) ==
    [item |-> item, position |-> position, rotation |-> rotation]

\* bounds: <<min corner, max corner>>
Bounds(p) ==
    << p.position,
       << p.position[1] + p.rotation[1],
          p.position[2] + p.rotation[2],
          p.position[3] + p.rotation[3] >> >>

PlacedVolume(p) == p.rotation[1] * p.rotation[2] * p.rotation[3]

(* ------------------------------ Point3D -------------------------------- *)
\* round(v, n) for v >= 0: the nearest multiple of q ticks, a tie going to
\* the even multiple
RoundTo(v, q) ==
    LET r == v % q
        k == v \div q
    IN  IF r = 0 THEN v
        ELSE IF 2 * r < q THEN k * q
        ELSE IF 2 * r > q THEN (k + 1) * q
        ELSE IF k % 2 = 0 THEN k * q ELSE (k + 1) * q

round3(v) == RoundTo(v, EqQuantum)
round6(v) == RoundTo(v, KeyQuantum)

\* what __hash__ and __eq__ look at
PointKey(p) == <<round3(p[1]), round3(p[2]), round3(p[3])>>

\* Point3D.__eq__
PointEq(p, q) == PointKey(p) = PointKey(q)

\* point in list
PointInList(point, s) ==
    LET key == PointKey(point)
    IN  \E i \in 1..Len(s) : PointKey(s[i]) = key

\* list.remove(point): drop the first element equal to point
RemovePoint(s, point) ==
    LET i == CHOOSE k \in 1..Len(s) :
                 PointEq(s[k], point) /\ \A j \in 1..(k - 1) : ~PointEq(s[j], point)
    IN  [k \in 1..(Len(s) - 1) |-> IF k < i THEN s[k] ELSE s[k + 1]]

(* --------------------------- PointManager ------------------------------ *)
PointManagerInit ==
    [available_points |-> <<>>, used_points |-> <<>>,
     blocked_points |-> <<>>, point_priorities |-> <<>>]

\* point_priorities is a dict keyed by points: a function on the PointKey
\* of its keys
DictSet(d, k, v) == [x \in (DOMAIN d) \cup {k} |-> IF x = k THEN v ELSE d[x]]
DictGet(d, k, default) == IF k \in DOMAIN d THEN d[k] ELSE default

add_point(pm, point, priority) ==
    IF ~PointInList(point, pm.available_points)
         /\ ~PointInList(point, pm.used_points)
    THEN [pm EXCEPT !.available_points = Append(@, point),
                    !.point_priorities = DictSet(@, PointKey(point), priority)]
    ELSE pm

\* faulty variant: the key (x, y, z, priority)
ScanKey_xyz(pm, p) ==
    <<round6(p[1]), round6(p[2]), round6(p[3]),
      DictGet(pm.point_priorities, PointKey(p), DefaultPriority)>>

\* the scan key of get_next_point: (x, z, y, priority)
ScanKey(pm, p) ==
    <<round6(p[1]), round6(p[3]), round6(p[2]),
      DictGet(pm.point_priorities, PointKey(p), DefaultPriority)>>

\* get_next_point sorts available_points in place; the point it returns is
\* the head of the sorted list
SortAvailable(pm) ==
    [pm EXCEPT !.available_points =
        StableSortBy(@, [i \in 1..Len(@) |-> ScanKey(pm, @[i])])]

\* None
None == <<>>

get_next_point(pm) ==
    IF pm.available_points = <<>> THEN None
    ELSE SortAvailable(pm).available_points[1]

\* faulty variant: the point is not taken out of the open list
mark_point_used_keeps_open(pm, point) ==
    [pm EXCEPT !.used_points = Append(@, point)]

\* faulty variant: the point is entered in the consumed list twice
mark_point_used_twice(pm, point) ==
    [pm EXCEPT !.available_points =
                   IF PointInList(point, @) THEN RemovePoint(@, point) ELSE @,
               !.used_points = Append(Append(@, point), point)]

mark_point_used(pm, point) ==
    [pm EXCEPT !.available_points =
                   IF PointInList(point, @) THEN RemovePoint(@, point) ELSE @,
               !.used_points = Append(@, point)]

\* faulty variant: the point is not moved to the blocked list
mark_point_blocked_noop(pm, point) == pm

\* faulty variant: the point is entered in the consumed list as well
mark_point_blocked_also_used(pm, point) ==
    [pm EXCEPT !.available_points =
                   IF PointInList(point, @) THEN RemovePoint(@, point) ELSE @,
               !.used_points = Append(@, point),
               !.blocked_points = Append(@, point)]

mark_point_blocked(pm, point) ==
    [pm EXCEPT !.available_points =
                   IF PointInList(point, @) THEN RemovePoint(@, point) ELSE @,
               !.blocked_points = Append(@, point)]

\* faulty variant: the height point is offered for every item
Candidates_always_height(placed_item) ==
    LET x == placed_item.position[1]
        y == placed_item.position[2]
        z == placed_item.position[3]
        l == placed_item.rotation[1]
        w == placed_item.rotation[2]
        h == placed_item.rotation[3]
    IN  << <<x, y + w, z>>, <<x, y, z + h>>, <<x + l, y, z>> >>

\* candidates in generation order: width, [height], length
Candidates(placed_item) ==
    LET x == placed_item.position[1]
        y == placed_item.position[2]
        z == placed_item.position[3]
        l == placed_item.rotation[1]
        w == placed_item.rotation[2]
        h == placed_item.rotation[3]
    IN  IF placed_item.item.stackability = STACKABLE
        THEN << <<x, y + w, z>>, <<x, y, z + h>>, <<x + l, y, z>> >>
        ELSE << <<x, y + w, z>>, <<x + l, y, z>> >>

\* faulty variant: blocked points are offered again
generate_new_points_ignores_blocked(pm, placed_item) ==
    SelectSeq(Candidates(placed_item),
              LAMBDA point : /\ ~PointInList(point, pm.available_points)
                             /\ ~PointInList(point, pm.used_points))

generate_new_points(pm, placed_item) ==
    SelectSeq(Candidates(placed_item),
              LAMBDA point : /\ ~PointInList(point, pm.available_points)
                             /\ ~PointInList(point, pm.used_points)
                             /\ ~PointInList(point, pm.blocked_points))

(* -------------------------- CollisionDetector -------------------------- *)
\* collision_cache is a dict: the set of its <<key, value>> entries
CollisionDetectorInit == [placed_items |-> <<>>, collision_cache |-> {}]

\* faulty variant: the first x test compares the two max corners
_aabb_collision_typo(bounds1, bounds2) ==
    LET min1 == bounds1[1]
        max1 == bounds1[2]
        min2 == bounds2[1]
        max2 == bounds2[2]
    IN  ~ ( \/ max1[1] <= max2[1] \/ min1[1] >= max2[1]
            \/ max1[2] <= min2[2] \/ min1[2] >= max2[2]
            \/ max1[3] <= min2[3] \/ min1[3] >= max2[3] )

\* faulty variant: boxes that touch count as colliding
_aabb_collision_touching(bounds1, bounds2) ==
    LET min1 == bounds1[1]
        max1 == bounds1[2]
        min2 == bounds2[1]
        max2 == bounds2[2]
    IN  ~ ( \/ max1[1] < min2[1] \/ min1[1] > max2[1]
            \/ max1[2] < min2[2] \/ min1[2] > max2[2]
            \/ max1[3] < min2[3] \/ min1[3] > max2[3] )

_aabb_collision(bounds1, bounds2) ==
    LET min1 == bounds1[1]
        max1 == bounds1[2]
        min2 == bounds2[1]
        max2 == bounds2[2]
    IN  ~ ( \/ max1[1] <= min2[1] \/ min1[1] >= max2[1]
            \/ max1[2] <= min2[2] \/ min1[2] >= max2[2]
            \/ max1[3] <= min2[3] \/ min1[3] >= max2[3] )

CacheKey(item, position, rotation) ==
    <<item.id, position[1], position[2], position[3], rotation>>

\* the pairwise test of the candidate box against every placed item
CollisionScan(cd, item, position, rotation) ==
    \E i \in 1..Len(cd.placed_items) :
        _aabb_collision(Bounds(PlacedItem(item, position, rotation)),
                        Bounds(cd.placed_items[i]))

CacheKeys(cache) == { e[1] : e \in cache }
CacheValue(cache, key) == (CHOOSE e \in cache : e[1] = key)[2]

\* faulty variant: no candidate is reported as colliding
check_collision_never(cd, item, position, rotation) == FALSE

check_collision(cd, item, position, rotation) ==
    IF CacheKey(item, position, rotation) \in CacheKeys(cd.collision_cache)
    THEN CacheValue(cd.collision_cache, CacheKey(item, position, rotation))
    ELSE CollisionScan(cd, item, position, rotation)

\* faulty variant: the cache survives the new placement
cd_add_placed_item_keeps_cache(cd, placed_item) ==
    [placed_items |-> Append(cd.placed_items, placed_item),
     collision_cache |-> cd.collision_cache]

cd_add_placed_item(cd, placed_item) ==
    [placed_items |-> Append(cd.placed_items, placed_item),
     collision_cache |-> {}]

(* --------------------------- SupportValidator -------------------------- *)
SupportValidatorInit == [placed_items |-> <<>>]

_get_support_surface(sv, height) ==
    LET tops == SelectSeq(sv.placed_items,
                    LAMBDA p : p.position[3] + p.rotation[3] = height)
    IN  [i \in 1..Len(tops) |-> Bounds(tops[i])]

_calculate_intersection_area(item_bounds, support_bounds) ==
    LET item_min == item_bounds[1]
        item_max == item_bounds[2]
        support_min == support_bounds[1]
        support_max == support_bounds[2]
        x_overlap == Max2(0, Min2(item_max[1], support_max[1])
                             - Max2(item_min[1], support_min[1]))
        y_overlap == Max2(0, Min2(item_max[2], support_max[2])
                             - Max2(item_min[2], support_min[2]))
    IN  x_overlap * y_overlap

\* supported_area: the sum of the intersection areas over the surfaces
SupportedArea(position, rotation, support_surfaces) ==
    SumSeq([i \in 1..Len(support_surfaces) |->
        _calculate_intersection_area(
            << position,
               <<position[1] + rotation[1], position[2] + rotation[2],
                 position[3]>> >>,
            support_surfaces[i])])

\* faulty variant: any positive support is accepted
SupportAny(position, rotation, support_surfaces) ==
    LET item_base_area == rotation[1] * rotation[2]
    IN  /\ item_base_area > 0
        /\ SupportedArea(position, rotation, support_surfaces) > 0

\* support_percentage >= 100.0, i.e. supported_area / base_area * 100 >= 100
\* (0.0 when the base area is not positive)
SupportAtLeast100(position, rotation, support_surfaces) ==
    LET item_base_area == rotation[1] * rotation[2]
    IN  /\ item_base_area > 0
        /\ SupportedArea(position, rotation, support_surfaces) >= item_base_area

validate_support(sv, item, position, rotation) ==
    IF position[3] = 0 THEN TRUE
    ELSE LET support_surface == _get_support_surface(sv, position[3])
         IN  IF support_surface = <<>> THEN FALSE
             ELSE SupportAtLeast100(position, rotation, support_surface)

\* faulty variant: the support validator is not told of the placement
sv_add_placed_item_noop(sv, placed_item) == sv

sv_add_placed_item(sv, placed_item) ==
    [placed_items |-> Append(sv.placed_items, placed_item)]

(* ----------------------------- WeightManager --------------------------- *)
WeightManagerInit == [placed_items |-> <<>>]

\* the placed items whose origin has the same (x, y) as position
\* faulty variant: every item standing at the same x counts
SameColumn_same_x(wm, position) ==
    SelectSeq(wm.placed_items, LAMBDA p : p.position[1] = position[1])

SameColumn(wm, position) ==
    SelectSeq(wm.placed_items,
              LAMBDA p : p.position[1] = position[1]
                         /\ p.position[2] = position[2])

\* faulty variant: the stack may hold one item more
_check_stack_height_off_by_one(wm, position) ==
    IF position[3] = 0 THEN TRUE
    ELSE Len(SameColumn(wm, position)) <= max_stack_height

_check_stack_height(wm, position) ==
    IF position[3] = 0 THEN TRUE
    ELSE Len(SameColumn(wm, position)) < max_stack_height

\* faulty variant: the weight limit is not applied on the floor
_check_weight_limits_floor_exempt(wm, item, position) ==
    LET col == SameColumn(wm, position)
        total_weight ==
            item.weight + SumSeq([i \in 1..Len(col) |-> col[i].item.weight])
    IN  position[3] = 0 \/ total_weight <= max_weight_per_stack

_check_weight_limits(wm, item, position) ==
    LET col == SameColumn(wm, position)
        total_weight ==
            item.weight + SumSeq([i \in 1..Len(col) |-> col[i].item.weight])
    IN  total_weight <= max_weight_per_stack

\* faulty variant: the stack height is not checked
validate_placement_weight_only(wm, item, position, rotation) ==
    _check_weight_limits(wm, item, position)

validate_placement(wm, item, position, rotation) ==
    /\ _check_stack_height(wm, position)
    /\ _check_weight_limits(wm, item, position)

wm_add_placed_item(wm, placed_item) ==
    [placed_items |-> Append(wm.placed_items, placed_item)]

(* ------------------------------ BinPackerV3 ---------------------------- *)
VARIABLES
    truck_dimensions,    \* BinPackerV3.truck_dimensions
    placed_items,        \* BinPackerV3.placed_items
    unplaced_items,      \* BinPackerV3.unplaced_items
    point_manager,       \* BinPackerV3.point_manager
    collision_detector,  \* BinPackerV3.collision_detector
    support_validator,   \* BinPackerV3.support_validator
    weight_manager,      \* BinPackerV3.weight_manager
    pc,                  \* position of the caller: "idle", "running", "done",
                         \* "probed" after a direct call on the frontier
    items,               \* the list the caller passes to pack_items
    calls,               \* pack_items calls made on this packer so far
    runs,                \* pack_items calls made by the caller so far
    trace,               \* points popped in the current call, with the commit
    result,              \* the report returned by the last finished call
    reports              \* the finished calls: [first, items, trace, result]

vars == <<truck_dimensions, placed_items, unplaced_items, point_manager,
          collision_detector, support_validator, weight_manager, pc, items,
          calls, runs, trace, result, reports>>

NoResult == [success |-> FALSE]

stack_rank(st) ==
    CASE st = UNSTACKABLE -> 0
      [] st = STACKABLE -> 1
      [] st = SEMI_STACKABLE -> 2
      [] OTHER -> 2

\* position of a destination label in lexicographic order
DestinationOrder(d) == CHOOSE i \in 1..Len(Destinations) : Destinations[i] = d

\* faulty variant: the destination is not part of the key
PriorityKey_no_destination(x) ==
    <<stack_rank(x.stackability), 0 - Volume(x), 0 - x.weight>>

PriorityKey(x) ==
    <<stack_rank(x.stackability), 0 - Volume(x), 0 - x.weight,
      DestinationOrder(x.destination)>>

\* faulty variant: the items stay in input order
_sort_items_by_priority_input_order(its) == its

_sort_items_by_priority(its) ==
    StableSortBy(its, [i \in 1..Len(its) |-> PriorityKey(its[i])])

\* faulty variant: the height of the truck is not checked
_check_geometric_constraints_no_height(truck, item, point, rotation) ==
    ~ ( \/ point[1] + rotation[1] > truck[1]
        \/ point[2] + rotation[2] > truck[2]
        \/ point[1] < 0 \/ point[2] < 0 \/ point[3] < 0 )

\* faulty variant: the width of the truck is not checked
_check_geometric_constraints_no_width(truck, item, point, rotation) ==
    ~ ( \/ point[1] + rotation[1] > truck[1]
        \/ point[3] + rotation[3] > truck[3]
        \/ point[1] < 0 \/ point[2] < 0 \/ point[3] < 0 )

\* faulty variant: the length of the truck is not checked
_check_geometric_constraints_no_length(truck, item, point, rotation) ==
    ~ ( \/ point[2] + rotation[2] > truck[2]
        \/ point[3] + rotation[3] > truck[3]
        \/ point[1] < 0 \/ point[2] < 0 \/ point[3] < 0 )

_check_geometric_constraints(truck, item, point, rotation) ==
    ~ ( \/ point[1] + rotation[1] > truck[1]
        \/ point[2] + rotation[2] > truck[2]
        \/ point[3] + rotation[3] > truck[3]
        \/ point[1] < 0 \/ point[2] < 0 \/ point[3] < 0 )

\* faulty variant: the floor rule for unstackable items is missing
_attempt_placement_no_floor_rule(truck, cd, sv, wm, item, point, rotation) ==
    IF ~_check_geometric_constraints(truck, item, point, rotation)
        THEN "geometric_violation"
    ELSE IF check_collision(cd, item, point, rotation)
        THEN "collision"
    ELSE IF ~validate_support(sv, item, point, rotation)
        THEN "insufficient_support"
    ELSE IF ~validate_placement(wm, item, point, rotation)
        THEN "weight_violation"
    ELSE "ok"

\* the reason of the PlacementResult, "ok" for success
_attempt_placement(truck, cd, sv, wm, item, point, rotation) ==
    IF item.stackability = UNSTACKABLE /\ point[3] # 0
        THEN "unstackable_must_be_floor"
    ELSE IF ~_check_geometric_constraints(truck, item, point, rotation)
        THEN "geometric_violation"
    ELSE IF check_collision(cd, item, point, rotation)
        THEN "collision"
    ELSE IF ~validate_support(sv, item, point, rotation)
        THEN "insufficient_support"
    ELSE IF ~validate_placement(wm, item, point, rotation)
        THEN "weight_violation"
    ELSE "ok"

\* The scan of _try_place_item_at_point: attempt k tries rotation
\* ((k - 1) % 2) + 1 of unplaced item (k + 1) \div 2.
AttemptItem(unplaced, k) == unplaced[(k + 1) \div 2]
\* faulty variant: the swapped orientation is tried first
AttemptRotation_swapped_first(unplaced, k) ==
    get_rotations(AttemptItem(unplaced, k))[2 - ((k - 1) % 2)]

AttemptRotation(unplaced, k) ==
    get_rotations(AttemptItem(unplaced, k))[((k - 1) % 2) + 1]

AttemptReason(truck, cd, sv, wm, unplaced, point, k) ==
    _attempt_placement(truck, cd, sv, wm, AttemptItem(unplaced, k), point,
                       AttemptRotation(unplaced, k))

\* the first attempt k, k + 1, ... of the scan that succeeds, 0 when none does
RECURSIVE FirstPassingFrom(_, _, _, _, _, _, _)
FirstPassingFrom(truck, cd, sv, wm, unplaced, point, k) ==
    IF k > 2 * Len(unplaced) THEN 0
    ELSE IF AttemptReason(truck, cd, sv, wm, unplaced, point, k) = "ok" THEN k
    ELSE FirstPassingFrom(truck, cd, sv, wm, unplaced, point, k + 1)

FirstPassing(truck, cd, sv, wm, unplaced, point) ==
    FirstPassingFrom(truck, cd, sv, wm, unplaced, point, 1)

\* what _try_place_item_at_point returns when attempt k is the first to
\* succeed (k = 0: none): the PlacedItem, or None
ScanResult(unplaced, point) ==
    [k \in 0..(2 * Len(unplaced)) |->
        IF k = 0 THEN [success |-> FALSE]
        ELSE [success |-> TRUE,
              placed_item |-> PlacedItem(AttemptItem(unplaced, k), point,
                                         AttemptRotation(unplaced, k))]]

_try_place_item_at_point(truck, cd, sv, wm, unplaced, point) ==
    ScanResult(unplaced, point)[FirstPassing(truck, cd, sv, wm, unplaced, point)]

\* the attempt gets as far as check_collision: it passes the floor rule
\* and the geometric check
ReachesCollisionCheck(truck, unplaced, point, k) ==
    /\ ~(AttemptItem(unplaced, k).stackability = UNSTACKABLE /\ point[3] # 0)
    /\ _check_geometric_constraints(truck, AttemptItem(unplaced, k), point,
                                    AttemptRotation(unplaced, k))

\* the collision cache after a scan in which no attempt succeeded: every
\* attempt that got as far as check_collision and missed the cache has left
\* its entry
CacheAfterScan(truck, cd, unplaced, point) ==
    cd.collision_cache \cup
    { <<CacheKey(AttemptItem(unplaced, k), point, AttemptRotation(unplaced, k)),
        CollisionScan(cd, AttemptItem(unplaced, k), point,
                      AttemptRotation(unplaced, k))>> :
      k \in { j \in 1..(2 * Len(unplaced)) :
                /\ ReachesCollisionCheck(truck, unplaced, point, j)
                /\ CacheKey(AttemptItem(unplaced, j), point,
                            AttemptRotation(unplaced, j))
                       \notin CacheKeys(cd.collision_cache) } }

\* faulty variant: the placed item stays in the backlog
UnplacedAfterPlacement_keep(unplaced, placed_item) == unplaced

\* faulty variant: the rest of the backlog is turned round after the removal
UnplacedAfterPlacement_reversed(unplaced, placed_item) ==
    LET rest == RemoveFirst(unplaced, placed_item.item)
    IN  [k \in 1..Len(rest) |-> rest[Len(rest) + 1 - k]]

\* the backlog after _handle_successful_placement: list.remove(item)
UnplacedAfterPlacement(unplaced, placed_item) ==
    RemoveFirst(unplaced, placed_item.item)

\* the loop of _handle_successful_placement that adds the new points with
\* priorities 1..k in generation order
\* faulty variant: the priorities start at 0
RECURSIVE AddPoints_zero_based(_, _, _)
AddPoints_zero_based(pm, new_points, i) ==
    IF i > Len(new_points) THEN pm
    ELSE AddPoints_zero_based(add_point(pm, new_points[i], i - 1), new_points,
                              i + 1)

RECURSIVE AddPoints(_, _, _)
AddPoints(pm, new_points, i) ==
    IF i > Len(new_points) THEN pm
    ELSE AddPoints(add_point(pm, new_points[i], i), new_points, i + 1)

\* round(used / total * 100, 2) in hundredths of a percent, half to even
\* (the quotient used * 10000 / total is taken in two steps to keep the
\* intermediate products small)
Round2Percent(used, total) ==
    LET n1 == used * 100
        n2 == (n1 % total) * 100
        q == (n1 \div total) * 100 + n2 \div total
        r == n2 % total
    IN  IF 2 * r < total THEN q
        ELSE IF 2 * r > total THEN q + 1
        ELSE IF q % 2 = 0 THEN q ELSE q + 1

_generate_packing_result(truck, placed, unplaced) ==
    LET total_volume == truck[1] * truck[2] * truck[3]
        used_volume == SumSeq([i \in 1..Len(placed) |-> PlacedVolume(placed[i])])
    IN  [success |-> TRUE,
         placed_items |->
            [i \in 1..Len(placed) |->
                [id |-> placed[i].item.id,
                 stackability |-> placed[i].item.stackability,
                 position |-> placed[i].position,
                 rotation |-> placed[i].rotation,
                 dimensions |-> placed[i].rotation,
                 weight |-> placed[i].item.weight]],
         unplaced_items |->
            [i \in 1..Len(unplaced) |->
                [id |-> unplaced[i].id, volume |-> Volume(unplaced[i]),
                 weight |-> unplaced[i].weight,
                 stackability |-> unplaced[i].stackability]],
         efficiency |-> IF total_volume > 0
                        THEN Round2Percent(used_volume, total_volume) ELSE 0,
         total_weight |-> SumSeq([i \in 1..Len(placed) |-> placed[i].item.weight]),
         truck_dimensions |-> truck,
         statistics |->
            [items_placed |-> Len(placed), items_unplaced |-> Len(unplaced),
             total_items |-> Len(placed) + Len(unplaced)]]

(* ------------------------------- actions ------------------------------- *)
\* BinPackerV3.__init__: the state of a packer right after construction
BinPackerInit ==
    [placed_items |-> <<>>, unplaced_items |-> <<>>,
     point_manager |-> add_point(PointManagerInit, <<0, 0, 0>>, 0),
     collision_detector |-> CollisionDetectorInit,
     support_validator |-> SupportValidatorInit,
     weight_manager |-> WeightManagerInit]

\* a caller constructs a packer for the truck of one of the given
\* <<truck, item list>> pairs and holds the list
InitFrom(inputs) ==
    /\ \E input \in inputs : truck_dimensions = input[1] /\ items = input[2]
    /\ placed_items = BinPackerInit.placed_items
    /\ unplaced_items = BinPackerInit.unplaced_items
    /\ point_manager = BinPackerInit.point_manager
    /\ collision_detector = BinPackerInit.collision_detector
    /\ support_validator = BinPackerInit.support_validator
    /\ weight_manager = BinPackerInit.weight_manager
    /\ pc = "idle"
    /\ calls = 0
    /\ runs = 0
    /\ trace = <<>>
    /\ result = NoResult
    /\ reports = <<>>

Init == InitFrom(Inputs)

\* pack_items, up to the loop: sort the items and make them the backlog
PackBegin ==
    /\ pc \in {"idle", "done"}
    /\ runs < MaxCalls
    /\ unplaced_items' = _sort_items_by_priority(items)
    /\ pc' = "running"
    /\ calls' = calls + 1
    /\ runs' = runs + 1
    /\ trace' = <<>>
    /\ UNCHANGED <<truck_dimensions, placed_items, point_manager,
                   collision_detector, support_validator, weight_manager,
                   items, result, reports>>

\* faulty variant: the loop goes on while a point is open, items or not
LoopCondition_points_only == point_manager.available_points # <<>>

\* the condition of the while loop of pack_items
LoopCondition == point_manager.available_points # <<>> /\ unplaced_items # <<>>

\* _try_place_item_at_point(current_point) in the current state
Attempt(current_point) ==
    _try_place_item_at_point(truck_dimensions, collision_detector,
        support_validator, weight_manager, unplaced_items, current_point)

\* faulty variant: the new placement is put in front of the earlier ones
PlaceStep_prepend ==
    /\ pc = "running"
    /\ LoopCondition
    /\ \E current_point \in {get_next_point(point_manager)} :
       \E attempt \in {Attempt(current_point)} :
           /\ attempt.success
           /\ placed_items' = <<attempt.placed_item>> \o placed_items
           /\ unplaced_items' =
                UnplacedAfterPlacement(unplaced_items, attempt.placed_item)
           /\ \E used \in {mark_point_used(SortAvailable(point_manager),
                                           current_point)} :
              \E new_points \in {generate_new_points(used,
                                                     attempt.placed_item)} :
                    point_manager' = AddPoints(used, new_points, 1)
           /\ collision_detector' =
                cd_add_placed_item(collision_detector, attempt.placed_item)
           /\ support_validator' =
                sv_add_placed_item(support_validator, attempt.placed_item)
           /\ weight_manager' =
                wm_add_placed_item(weight_manager, attempt.placed_item)
           /\ trace' = Append(trace, [point |-> current_point,
                                      placed |-> <<attempt.placed_item>>])
    /\ UNCHANGED <<truck_dimensions, pc, items, calls, runs, result, reports>>

\* one loop iteration that places an item: _handle_successful_placement
PlaceStep ==
    /\ pc = "running"
    /\ LoopCondition
    /\ \E current_point \in {get_next_point(point_manager)} :
       \E attempt \in {Attempt(current_point)} :
           /\ attempt.success
           /\ placed_items' = Append(placed_items, attempt.placed_item)
           /\ unplaced_items' =
                UnplacedAfterPlacement(unplaced_items, attempt.placed_item)
           /\ \E used \in {mark_point_used(SortAvailable(point_manager),
                                           current_point)} :
              \E new_points \in {generate_new_points(used,
                                                     attempt.placed_item)} :
                    point_manager' = AddPoints(used, new_points, 1)
           /\ collision_detector' =
                cd_add_placed_item(collision_detector, attempt.placed_item)
           /\ support_validator' =
                sv_add_placed_item(support_validator, attempt.placed_item)
           /\ weight_manager' =
                wm_add_placed_item(weight_manager, attempt.placed_item)
           /\ trace' = Append(trace, [point |-> current_point,
                                      placed |-> <<attempt.placed_item>>])
    /\ UNCHANGED <<truck_dimensions, pc, items, calls, runs, result, reports>>

\* one loop iteration that places nothing: _handle_failed_placement
BlockStep ==
    /\ pc = "running"
    /\ LoopCondition
    /\ \E current_point \in {get_next_point(point_manager)} :
           /\ ~Attempt(current_point).success
           /\ point_manager' =
                mark_point_blocked(SortAvailable(point_manager), current_point)
           /\ collision_detector' =
                [collision_detector EXCEPT !.collision_cache =
                    CacheAfterScan(truck_dimensions, collision_detector,
                                   unplaced_items, current_point)]
           /\ trace' = Append(trace, [point |-> current_point, placed |-> <<>>])
    /\ UNCHANGED <<truck_dimensions, placed_items, unplaced_items,
                   support_validator, weight_manager, pc, items, calls, runs,
                   result, reports>>

\* faulty variant: the loop may stop at any iteration
PackEnd_eager ==
    /\ pc = "running"
    /\ pc' = "done"
    /\ result' = _generate_packing_result(truck_dimensions, placed_items,
                                          unplaced_items)
    /\ reports' = Append(reports, [first |-> (calls = 1), items |-> items,
                                   trace |-> trace, result |-> result'])
    /\ UNCHANGED <<truck_dimensions, placed_items, unplaced_items,
                   point_manager, collision_detector, support_validator,
                   weight_manager, items, calls, runs, trace>>

\* the loop ends and pack_items returns _generate_packing_result()
PackEnd ==
    /\ pc = "running"
    /\ ~LoopCondition
    /\ pc' = "done"
    /\ result' = _generate_packing_result(truck_dimensions, placed_items,
                                          unplaced_items)
    /\ reports' = Append(reports, [first |-> (calls = 1), items |-> items,
                                   trace |-> trace, result |-> result'])
    /\ UNCHANGED <<truck_dimensions, placed_items, unplaced_items,
                   point_manager, collision_detector, support_validator,
                   weight_manager, items, calls, runs, trace>>

\* faulty variant: the frontier is shared by all packers instead of being
\* created per packer
NewPacker_shared_frontier ==
    /\ pc = "done"
    /\ runs < MaxCalls
    /\ placed_items' = BinPackerInit.placed_items
    /\ unplaced_items' = BinPackerInit.unplaced_items
    /\ point_manager' = add_point(point_manager, <<0, 0, 0>>, 0)
    /\ collision_detector' = BinPackerInit.collision_detector
    /\ support_validator' = BinPackerInit.support_validator
    /\ weight_manager' = BinPackerInit.weight_manager
    /\ pc' = "idle"
    /\ calls' = 0
    /\ UNCHANGED <<truck_dimensions, items, runs, trace, result, reports>>

\* the caller constructs a new packer for the same truck
NewPacker ==
    /\ pc = "done"
    /\ runs < MaxCalls
    /\ placed_items' = BinPackerInit.placed_items
    /\ unplaced_items' = BinPackerInit.unplaced_items
    /\ point_manager' = BinPackerInit.point_manager
    /\ collision_detector' = BinPackerInit.collision_detector
    /\ support_validator' = BinPackerInit.support_validator
    /\ weight_manager' = BinPackerInit.weight_manager
    /\ pc' = "idle"
    /\ calls' = 0
    /\ UNCHANGED <<truck_dimensions, items, runs, trace, result, reports>>

\* the lists that differ from the given one in can_rotate flags only
FlagVariants(list) ==
    { [k \in 1..Len(list) |-> [list[k] EXCEPT !.can_rotate = f[k]]] :
        f \in [1..Len(list) -> BOOLEAN] }

\* the caller constructs a new packer for the same truck and changes
\* can_rotate flags of the items before the next call
Reflag ==
    /\ pc = "done"
    /\ runs < MaxCalls
    /\ items' \in FlagVariants(items) \ {items}
    /\ placed_items' = BinPackerInit.placed_items
    /\ unplaced_items' = BinPackerInit.unplaced_items
    /\ point_manager' = BinPackerInit.point_manager
    /\ collision_detector' = BinPackerInit.collision_detector
    /\ support_validator' = BinPackerInit.support_validator
    /\ weight_manager' = BinPackerInit.weight_manager
    /\ pc' = "idle"
    /\ calls' = 0
    /\ UNCHANGED <<truck_dimensions, runs, trace, result, reports>>

Next == PackBegin \/ PlaceStep \/ BlockStep \/ PackEnd \/ NewPacker

Spec == Init /\ [][Next]_vars

\* The loop of pack_items is synchronous and has no suspension points: once
\* entered it keeps taking iterations until it returns.  The fairness check
\* is run on the item lists shorter than MaxItems.
FairInit == Init /\ Len(items) < MaxItems

FairSpec == FairInit /\ [][Next]_vars /\ WF_vars(PlaceStep \/ BlockStep \/ PackEnd)

\* points a caller of the frontier may hand to add_point after a call: the
\* points the frontier knows and one it has never seen
ProbePoints(pm, truck) ==
    Range(pm.available_points) \cup Range(pm.used_points)
        \cup Range(pm.blocked_points)
        \cup { <<truck[1] + Unit, truck[2] + Unit, truck[3] + Unit>> }

ProbePriorities == {0, 7}

\* a direct call PointManager.add_point(point, priority) on the frontier of
\* the packer once pack_items has returned; nothing is called afterwards
AddPointCall ==
    /\ pc = "done"
    /\ \E point \in ProbePoints(point_manager, truck_dimensions) :
       \E priority \in ProbePriorities :
           point_manager' = add_point(point_manager, point, priority)
    /\ pc' = "probed"
    /\ UNCHANGED <<truck_dimensions, placed_items, unplaced_items,
                   collision_detector, support_validator, weight_manager,
                   items, calls, runs, trace, result, reports>>

\* The runs of a caller that also uses the frontier of the packer directly,
\* on the item lists shorter than MaxItems.
PointNext == Next \/ AddPointCall

PointSpec == FairInit /\ [][PointNext]_vars

\* The runs of a caller that also varies the can_rotate flags between
\* calls, on the item lists shorter than MaxItems.
FlagNext == Next \/ Reflag

FlagSpec == FairInit /\ [][FlagNext]_vars

\* Requests to /api/v1/optimize whose lengths are no whole millimetres.
\* Half a millimetre is the rounding boundary of Point3D equality; the long
\* item ends one tick behind such a boundary and the short one one tick
\* before it.  Every list holds each type at most once, nothing stacks and
\* a packer serves one request, so a coordinate is a sum of whole
\* millimetres and at most one long and one short length.
MaxFineItems == 4

Half == EqQuantum \div 2

FineCatalogue ==
    { FineItemType(Unit + Half + 1, Unit, Unit, 30, SEMI_STACKABLE, ""),
      FineItemType(Unit + Half - 1, Unit, Unit, 20, SEMI_STACKABLE, ""),
      ItemType(1, 1, 1, 10, SEMI_STACKABLE, ""),
      ItemType(1, 1, 1, 5, UNSTACKABLE, ""),
      ItemType(4, 1, 1, 40, SEMI_STACKABLE, "") }

FineTrucks == { Truck(3, 2, 1), Truck(4, 3, 1) }

FineLists ==
    UNION { { [i \in 1..n |-> MkItem(f[i], i)] :
                f \in { g \in [1..n -> FineCatalogue] :
                          \A i, j \in 1..n : i # j => g[i] # g[j] } }
            : n \in 0..MaxFineItems }

FineInputs == FineTrucks \X FineLists

FineInit == InitFrom(FineInputs)

\* the endpoint constructs a packer for every request: one call per packer
PackRequest == pc = "idle" /\ PackBegin

FineNext == PackRequest \/ PlaceStep \/ BlockStep \/ PackEnd \/ NewPacker

FineSpec == FineInit /\ [][FineNext]_vars

(* ------------------------------ properties ----------------------------- *)
MinCorner(p) == Bounds(p)[1]
MaxCorner(p) == Bounds(p)[2]

\* the boxes [min, max) of two placed items intersect on the given axis
AxisOverlap(p, q, a) ==
    MinCorner(p)[a] < MaxCorner(q)[a] /\ MinCorner(q)[a] < MaxCorner(p)[a]

\* the footprints of two placed items intersect in positive area
FootprintOverlap(p, q) == AxisOverlap(p, q, 1) /\ AxisOverlap(p, q, 2)

\* the area of the intersection of the footprints of two placed items
FootprintIntersection(p, q) ==
    Max2(0, Min2(MaxCorner(p)[1], MaxCorner(q)[1])
            - Max2(MinCorner(p)[1], MinCorner(q)[1]))
    * Max2(0, Min2(MaxCorner(p)[2], MaxCorner(q)[2])
              - Max2(MinCorner(p)[2], MinCorner(q)[2]))

PlacedIdx == 1..Len(placed_items)

\* C1: no two distinct placed items overlap on all three axes at once, in
\* every state of a packing run and in the final report
C1_NoOverlap ==
    \A i \in PlacedIdx : \A j \in PlacedIdx :
        i < j => ~ ( /\ AxisOverlap(placed_items[i], placed_items[j], 1)
                     /\ AxisOverlap(placed_items[i], placed_items[j], 2)
                     /\ AxisOverlap(placed_items[i], placed_items[j], 3) )

\* a finished run with one item stacked on another and one beside it
C1_Witness ==
    /\ pc = "done"
    /\ \E i \in PlacedIdx : \E j \in PlacedIdx : \E k \in PlacedIdx :
        /\ MaxCorner(placed_items[i])[3] = MinCorner(placed_items[j])[3]
        /\ FootprintOverlap(placed_items[i], placed_items[j])
        /\ MaxCorner(placed_items[i])[2] = MinCorner(placed_items[k])[2]
        /\ AxisOverlap(placed_items[i], placed_items[k], 1)
        /\ AxisOverlap(placed_items[i], placed_items[k], 3)

\* the summed footprint intersection of placed item i with the top faces of
\* the placed items that end at its base height
Coverage(i) ==
    SumSeq([j \in PlacedIdx |->
        IF MaxCorner(placed_items[j])[3] = MinCorner(placed_items[i])[3]
        THEN FootprintIntersection(placed_items[i], placed_items[j])
        ELSE 0])

FootprintArea(p) == p.rotation[1] * p.rotation[2]

\* C2: every placed item with base height z > 0 is fully supported: its
\* coverage by the top faces ending at z is at least its footprint area
C2_FullSupport ==
    \A i \in PlacedIdx :
        placed_items[i].position[3] > 0
            => Coverage(i) >= FootprintArea(placed_items[i])

\* an item above the floor that rests on the top faces of two items
C2_Witness ==
    \E i \in PlacedIdx :
        /\ placed_items[i].position[3] > 0
        /\ Cardinality({ j \in PlacedIdx :
                /\ MaxCorner(placed_items[j])[3] = MinCorner(placed_items[i])[3]
                /\ FootprintOverlap(placed_items[i], placed_items[j]) }) >= 2

\* C3: every placed item lies inside the container: origin >= 0 and
\* origin + orientation <= truck dimensions on every axis
C3_InBounds ==
    \A i \in PlacedIdx : \A a \in 1..3 :
        /\ MinCorner(placed_items[i])[a] >= 0
        /\ MaxCorner(placed_items[i])[a] <= truck_dimensions[a]

\* a placed item reaches the roof of the truck and an item was left out
C3_Witness ==
    /\ pc = "done"
    /\ unplaced_items # <<>>
    /\ \E i \in PlacedIdx : MaxCorner(placed_items[i])[3] = truck_dimensions[3]

\* C4: nothing is placed above a semi-stackable or unstackable item: no
\* placed item has its base at the top height of such an item with a
\* footprint overlapping it in positive area
C4_NothingAboveNonStackable ==
    \A i \in PlacedIdx : \A j \in PlacedIdx :
        ( /\ placed_items[i].item.stackability \in {SEMI_STACKABLE, UNSTACKABLE}
          /\ MinCorner(placed_items[j])[3] = MaxCorner(placed_items[i])[3] )
        => ~FootprintOverlap(placed_items[i], placed_items[j])

\* the planar origins of the placed items
Columns == { <<placed_items[i].position[1], placed_items[i].position[2]>> :
             i \in PlacedIdx }
ColumnItems(c) ==
    SelectSeq(placed_items,
              LAMBDA p : p.position[1] = c[1] /\ p.position[2] = c[2])
ColumnWeight(c) ==
    LET col == ColumnItems(c)
    IN  SumSeq([i \in 1..Len(col) |-> col[i].item.weight])

\* C5: for every planar origin (x, y) the number of placed items with that
\* origin is at most 3 and their summed weight is at most 1000
C5_ColumnLimits ==
    \A c \in Columns :
        /\ Len(ColumnItems(c)) <= 3
        /\ ColumnWeight(c) <= 1000

\* a full column of three items, a column at the weight limit's edge, and an
\* item the run could not place
C5_Witness ==
    /\ pc = "done"
    /\ unplaced_items # <<>>
    /\ \E c \in Columns : Len(ColumnItems(c)) = 3 /\ ColumnWeight(c) > 500

\* C6: every placed unstackable item has origin height z = 0
C6_UnstackableOnFloor ==
    \A i \in PlacedIdx :
        placed_items[i].item.stackability = UNSTACKABLE
            => placed_items[i].position[3] = 0

\* an unstackable item is placed and another item is placed above the floor
C6_Witness ==
    /\ \E i \in PlacedIdx : placed_items[i].item.stackability = UNSTACKABLE
    /\ \E i \in PlacedIdx : placed_items[i].position[3] > 0
    /\ \E i \in 1..Len(unplaced_items) :
            unplaced_items[i].stackability = UNSTACKABLE

\* C7: in the first pack_items call on a packer, after every loop step and
\* in the report, placed + unplaced = number of input items
C7_Conservation ==
    /\ (calls = 1 /\ pc \in {"running", "done"})
        => Len(placed_items) + Len(unplaced_items) = Len(items)
    /\ (calls = 1 /\ pc = "done")
        => /\ result.statistics.items_placed + result.statistics.items_unplaced
                = result.statistics.total_items
           /\ result.statistics.total_items = Len(items)
           /\ result.statistics.items_placed = Len(result.placed_items)
           /\ result.statistics.items_unplaced = Len(result.unplaced_items)

\* a first call that finished with items placed and items left out
C7_Witness ==
    /\ calls = 1
    /\ pc = "done"
    /\ result.statistics.items_placed >= 2
    /\ result.statistics.items_unplaced >= 1

\* the commits recorded in a trace
Commits(t) == { i \in 1..Len(t) : t[i].placed # <<>> }

\* a step is a loop iteration exactly when it extends the trace
\* (PackBegin restarts the trace, the other actions leave it alone)
LoopIteration == Len(trace') = Len(trace) + 1

OpenPoints(pm) == Range(pm.available_points)

\* every loop iteration removes exactly the popped point from the open
\* frontier, adds at most three points, and the commits of one call never
\* outnumber the input items
C8_IterationShape ==
    LoopIteration =>
        /\ OpenPoints(point_manager) \ OpenPoints(point_manager')
                = {trace'[Len(trace')].point}
        /\ Cardinality(OpenPoints(point_manager')
                           \ OpenPoints(point_manager)) <= 3
        /\ (trace'[Len(trace')].placed = <<>>
                => OpenPoints(point_manager') \subseteq OpenPoints(point_manager))
        /\ Cardinality(Commits(trace')) <= Len(items)

\* C8: for every container and item list the main loop of pack_items
\* terminates and returns a report: each iteration removes exactly one open
\* point, a placement adds at most three, placements are bounded by the
\* number of items, and a running call always eventually reaches done
C8_Terminates ==
    /\ [][C8_IterationShape]_vars
    /\ (pc = "running") ~> (pc = "done" /\ result.success)

\* a finished call whose loop both placed items and blocked points, and
\* one placement produced three new points
C8_Witness ==
    /\ pc = "done"
    /\ Cardinality(Commits(trace)) >= 2
    /\ Cardinality(Commits(trace)) < Len(trace)
    /\ Len(point_manager.available_points) >= 2

\* the finished calls that were the first call on a newly created packer
FreshRuns == { i \in 1..Len(reports) : reports[i].first }

C10_NoSurvivingState ==
    \A i \in 1..Len(reports) : \A j \in 1..Len(reports) :
        reports[i].items = reports[j].items
            => reports[i].result = reports[j].result

(* C11: the run reaches Done exactly when the frontier has no open point or *)
(* no item remains unplaced: a loop iteration is only taken while an open   *)
(* point and an unplaced item both exist, the loop cannot stop while both   *)
(* exist, and in the final state open = empty or unplaced = empty.          *)
BothRemain == OpenPoints(point_manager) # {} /\ unplaced_items # <<>>

C11_LoopShape ==
    /\ LoopIteration => BothRemain
    /\ (pc = "running" /\ pc' = "done") => ~BothRemain

C11_DoneExactly ==
    /\ [][C11_LoopShape]_vars
    /\ []((pc = "running" /\ BothRemain) => ~ENABLED PackEnd)
    /\ [](pc = "done" => ~BothRemain)

\* a run that ended because the frontier ran dry with items left over
C11_Witness ==
    /\ pc = "done"
    /\ OpenPoints(point_manager) = {}
    /\ unplaced_items # <<>>
    /\ placed_items # <<>>

(* C12: pack_items on an empty list is a valid run that reaches Done        *)
(* without visiting any point: success is true, 0 placed, 0 unplaced,       *)
(* efficiency 0, and the origin stays the one open point.                   *)
C12_EmptyInput ==
    /\ \A i \in 1..Len(reports) :
          reports[i].items = <<>> =>
            /\ reports[i].trace = <<>>
            /\ reports[i].result.success
            /\ reports[i].result.placed_items = <<>>
            /\ reports[i].result.unplaced_items = <<>>
            /\ reports[i].result.statistics =
                  [items_placed |-> 0, items_unplaced |-> 0, total_items |-> 0]
            /\ reports[i].result.efficiency = 0
    /\ items = <<>> =>
          /\ point_manager.available_points = << <<0, 0, 0>> >>
          /\ point_manager.used_points = <<>>
          /\ point_manager.blocked_points = <<>>

C12_Witness ==
    /\ pc = "done"
    /\ items = <<>>
    /\ Len(reports) = 1
    /\ reports[1].result.success

(* C13: an item that does not fit inside the truck in either of its two     *)
(* orientations is never placed: every run ends with success true and that  *)
(* item in the unplaced list, and when it is the only item the report has   *)
(* 0 placed, 1 unplaced and efficiency 0.                                   *)
FitsAs(l, w, h, truck) == l <= truck[1] /\ w <= truck[2] /\ h <= truck[3]

Oversized(item, truck) ==
    /\ ~FitsAs(item.length, item.width, item.height, truck)
    /\ ~FitsAs(item.width, item.length, item.height, truck)

ReportedIds(list) == { list[k].id : k \in 1..Len(list) }

C13_OversizedUnplaced ==
    /\ \A i \in PlacedIdx : ~Oversized(placed_items[i].item, truck_dimensions)
    /\ \A i \in 1..Len(reports) :
          /\ reports[i].result.success
          /\ \A k \in 1..Len(reports[i].items) :
                Oversized(reports[i].items[k], truck_dimensions) =>
                  /\ reports[i].items[k].id
                        \in ReportedIds(reports[i].result.unplaced_items)
                  /\ reports[i].items[k].id
                        \notin ReportedIds(reports[i].result.placed_items)
          /\ (Len(reports[i].items) = 1
                /\ Oversized(reports[i].items[1], truck_dimensions)) =>
                  /\ reports[i].result.statistics =
                        [items_placed |-> 0, items_unplaced |-> 1,
                         total_items |-> 1]
                  /\ reports[i].result.efficiency = 0

\* truck (1,1,1) and the single box (2,2,2): the run is over
C13_Witness ==
    /\ pc = "done"
    /\ truck_dimensions = SmallTruck
    /\ Len(items) = 1
    /\ <<items[1].length, items[1].width, items[1].height>> = Dims(2, 2, 2)
    /\ result.statistics.items_unplaced = 1

(* C14: for the truck (10, 2.5, 2.5) and the stackable boxes                *)
(* A (1.0, 0.8, 0.6, 50 kg) and B (0.5, 0.5, 0.5, 25 kg), given in any      *)
(* order to a new packer, both boxes are placed and the first placement is  *)
(* A at the origin with orientation (1.0, 0.8, 0.6).  One millimetre of the *)
(* model stands for a tenth of a metre.                                     *)
IsBoxA(item) ==
    /\ <<item.length, item.width, item.height>> = Dims(10, 8, 6)
    /\ item.weight = 50

IsBoxB(item) ==
    /\ <<item.length, item.width, item.height>> = Dims(5, 5, 5)
    /\ item.weight = 25

TwoSimpleBoxes(list) ==
    /\ Len(list) = 2
    /\ \E a, b \in 1..2 : a # b /\ IsBoxA(list[a]) /\ IsBoxB(list[b])

C14_TwoSimpleBoxes ==
    \A i \in FreshRuns :
        (truck_dimensions = SimpleTruck /\ TwoSimpleBoxes(reports[i].items)) =>
            /\ reports[i].result.statistics.items_placed = 2
            /\ reports[i].result.statistics.items_unplaced = 0
            /\ Len(reports[i].trace) >= 1
            /\ reports[i].trace[1].point = <<0, 0, 0>>
            /\ reports[i].trace[1].placed # <<>>
            /\ IsBoxA(reports[i].trace[1].placed[1].item)
            /\ reports[i].trace[1].placed[1].rotation = Dims(10, 8, 6)
            /\ reports[i].result.placed_items[1].position = <<0, 0, 0>>
            /\ reports[i].result.placed_items[1].dimensions = Dims(10, 8, 6)

\* the run in which B comes first in the input has ended
C14_Witness ==
    /\ pc = "done"
    /\ truck_dimensions = SimpleTruck
    /\ TwoSimpleBoxes(items)
    /\ IsBoxB(items[1])
    /\ Len(reports) = 1
    /\ Len(placed_items) = 2

(* C15: with stack-height limit 3, once three items stand in one (x,y)      *)
(* column every further candidate at a point of that column above the floor *)
(* is rejected by the weight manager; in a truck whose footprint admits     *)
(* only one column and whose height admits four items, pack_items of four   *)
(* identical stackable items whose three-high stack is within the column    *)
(* weight limit places the first three in that column, rejects the fourth   *)
(* with a weight violation and ends with three placed and one unplaced.     *)
IdenticalStackable(list) ==
    \A k \in 1..Len(list) :
        /\ list[k].stackability = STACKABLE
        /\ <<list[k].length, list[k].width, list[k].height, list[k].weight>>
             = <<list[1].length, list[1].width, list[1].height, list[1].weight>>

\* the footprint of the truck admits one column of the item, its height four
OneColumnOfFour(truck, item) ==
    /\ item.length = truck[1]
    /\ item.width = truck[2]
    /\ 4 * item.height <= truck[3]

FourOfAKind(truck, list) ==
    /\ Len(list) = 4
    /\ IdenticalStackable(list)
    /\ OneColumnOfFour(truck, list[1])

ThreeInColumn(r) ==
    /\ Len(r.result.placed_items) = 3
    /\ \A k \in 1..3 :
          r.result.placed_items[k].position = <<0, 0, (k - 1) * r.items[1].height>>
    /\ r.result.statistics.items_placed = 3
    /\ r.result.statistics.items_unplaced = 1

C15_FullColumnRejects ==
    (pc = "running" /\ BothRemain) =>
        LET p == get_next_point(point_manager)
        IN  (p[3] # 0 /\ Len(ColumnItems(<<p[1], p[2]>>)) >= 3) =>
              \A k \in 1..(2 * Len(unplaced_items)) :
                /\ ~validate_placement(weight_manager,
                                       AttemptItem(unplaced_items, k), p,
                                       AttemptRotation(unplaced_items, k))
                /\ AttemptReason(truck_dimensions, collision_detector,
                                 support_validator, weight_manager,
                                 unplaced_items, p, k) # "ok"
                /\ (calls = 1 /\ FourOfAKind(truck_dimensions, items)) =>
                      AttemptReason(truck_dimensions, collision_detector,
                                    support_validator, weight_manager,
                                    unplaced_items, p, k) = "weight_violation"

C15_StackDepth ==
    /\ C15_FullColumnRejects
    /\ \A i \in FreshRuns :
          (/\ FourOfAKind(truck_dimensions, reports[i].items)
           /\ 3 * reports[i].items[1].weight <= max_weight_per_stack) =>
              ThreeInColumn(reports[i])

\* the statement without the condition on the weight
C15_StackDepth_AnyWeight ==
    \A i \in FreshRuns :
        FourOfAKind(truck_dimensions, reports[i].items) => ThreeInColumn(reports[i])

\* four identical boxes in the one-column truck: three are stacked, the
\* last one is left over
C15_Witness ==
    /\ pc = "done"
    /\ calls = 1
    /\ FourOfAKind(truck_dimensions, items)
    /\ Len(placed_items) = 3
    /\ Len(unplaced_items) = 1
    /\ point_manager.blocked_points # <<>>

(* C16: in a run in which an unstackable item of height h is placed at      *)
(* (0,0,0), the point (0,0,h) never enters the frontier: it is not open,    *)
(* consumed or blocked in any state.  Until the first placement the         *)
(* frontier holds the origin alone.                                         *)
Frontier(pm) ==
    Range(pm.available_points) \cup Range(pm.used_points)
        \cup Range(pm.blocked_points)

C16_NoPointAboveUnstackable ==
    /\ placed_items = <<>> => Frontier(point_manager) \subseteq { <<0, 0, 0>> }
    /\ \A i \in PlacedIdx :
          (/\ placed_items[i].item.stackability = UNSTACKABLE
           /\ placed_items[i].position = <<0, 0, 0>>) =>
              <<0, 0, placed_items[i].rotation[3]>> \notin Frontier(point_manager)

\* an unstackable item stands at the origin, a second item was placed and
\* the run has ended with points open, consumed and blocked
C16_Witness ==
    /\ pc = "done"
    /\ Len(placed_items) >= 2
    /\ placed_items[1].item.stackability = UNSTACKABLE
    /\ placed_items[1].position = <<0, 0, 0>>
    /\ point_manager.available_points # <<>>
    /\ point_manager.blocked_points # <<>>

(* C17: in every report the sum of the placed items' volumes does not       *)
(* exceed the volume of the truck, so the reported efficiency lies within   *)
(* [0, 100]; a truck of volume zero yields efficiency 0.  The efficiency is *)
(* counted in hundredths of a percent.                                      *)
ReportedVolume(r) ==
    SumSeq([k \in 1..Len(r.placed_items) |->
              r.placed_items[k].dimensions[1] * r.placed_items[k].dimensions[2]
                * r.placed_items[k].dimensions[3]])

TruckVolume(r) ==
    r.truck_dimensions[1] * r.truck_dimensions[2] * r.truck_dimensions[3]

C17_EfficiencyRange ==
    \A i \in 1..Len(reports) :
        LET r == reports[i].result
        IN  /\ ReportedVolume(r) <= TruckVolume(r)
            /\ 0 <= r.efficiency /\ r.efficiency <= 100 * 100
            /\ TruckVolume(r) = 0 => r.efficiency = 0

\* a truck filled to the last unit of volume
C17_Witness ==
    /\ pc = "done"
    /\ Len(reports) >= 1
    /\ result.efficiency = 100 * 100
    /\ ReportedVolume(result) = TruckVolume(result)
    /\ Len(result.placed_items) >= 2

(* C18: the can_rotate flag has no effect on packing: every item is tried   *)
(* in the same two orientations whatever its flag, and two runs on new      *)
(* packers for the same truck whose item lists differ only in can_rotate    *)
(* flags visit the same points and produce identical placements and         *)
(* unplaced lists.                                                          *)
WithoutFlags(list) ==
    [k \in 1..Len(list) |-> [list[k] EXCEPT !.can_rotate = TRUE]]

VisitedPoints(t) == [k \in 1..Len(t) |-> t[k].point]

ClassRank(item) ==
    CASE item.stackability = UNSTACKABLE -> 1
      [] item.stackability = STACKABLE -> 2
      [] item.stackability = SEMI_STACKABLE -> 3

LabelBefore(d, e) == <<d, e>> \in { <<"", "A">>, <<"", "B">>, <<"A", "B">> }

SortsBefore(x, y) ==
    \/ ClassRank(x) < ClassRank(y)
    \/ /\ ClassRank(x) = ClassRank(y)
       /\ \/ Volume(x) > Volume(y)
          \/ /\ Volume(x) = Volume(y)
             /\ \/ x.weight > y.weight
                \/ /\ x.weight = y.weight
                   /\ LabelBefore(x.destination, y.destination)

SortTie(x, y) ==
    /\ ClassRank(x) = ClassRank(y)
    /\ Volume(x) = Volume(y)
    /\ x.weight = y.weight
    /\ x.destination = y.destination

\* out holds the items of the input list, each once, in the claimed order;
\* the id of an item is its position in the input list
SortedBacklog(in, out) ==
    /\ Len(out) = Len(in)
    /\ \A k \in 1..Len(out) : out[k] = in[out[k].id]
    /\ \A a, b \in 1..Len(out) :
          a < b => \/ SortsBefore(out[a], out[b])
                   \/ SortTie(out[a], out[b]) /\ out[a].id < out[b].id

\* the backlog lost at most one item and kept the order of the others
OrderKept(before, after) ==
    \/ after = before
    \/ \E k \in 1..Len(before) :
          after = [j \in 1..(Len(before) - 1) |->
                      IF j < k THEN before[j] ELSE before[j + 1]]

C19_SortStep ==
    /\ (pc # "running" /\ pc' = "running") => SortedBacklog(items, unplaced_items')
    /\ LoopIteration => OrderKept(unplaced_items, unplaced_items')

PriorityOf(pm, p) ==
    IF p \in DOMAIN pm.point_priorities THEN pm.point_priorities[p] ELSE 999

ScansNoLater(pm, p, q) ==
    \/ p[1] < q[1]
    \/ /\ p[1] = q[1]
       /\ \/ p[3] < q[3]
          \/ /\ p[3] = q[3]
             /\ \/ p[2] < q[2]
                \/ p[2] = q[2] /\ PriorityOf(pm, p) <= PriorityOf(pm, q)

IsScanMinimum(pm, p) ==
    /\ p \in OpenPoints(pm)
    /\ \A q \in OpenPoints(pm) : ScansNoLater(pm, p, q)

C20_NextReturnsMinimum ==
    /\ (get_next_point(point_manager) = None)
          <=> (point_manager.available_points = <<>>)
    /\ point_manager.available_points # <<>> =>
          /\ IsScanMinimum(point_manager, get_next_point(point_manager))
          /\ OpenPoints(SortAvailable(point_manager)) = OpenPoints(point_manager)
          /\ Len(SortAvailable(point_manager).available_points)
                = Len(point_manager.available_points)
          /\ SortAvailable(point_manager).used_points = point_manager.used_points
          /\ SortAvailable(point_manager).blocked_points
                = point_manager.blocked_points

C20_VisitsMinimum ==
    LoopIteration => IsScanMinimum(point_manager, trace'[Len(trace')].point)

PassesAllFive(item, point, rotation) ==
    /\ ~(item.stackability = UNSTACKABLE /\ point[3] # 0)
    /\ _check_geometric_constraints(truck_dimensions, item, point, rotation)
    /\ ~CollisionScan(collision_detector, item, point, rotation)
    /\ validate_support(support_validator, item, point, rotation)
    /\ validate_placement(weight_manager, item, point, rotation)

\* pair number 2n - 1 is item n of the backlog as given, pair 2n is item n
\* with length and width swapped
ScanPairs ==
    [k \in 1..(2 * Len(unplaced_items)) |->
        LET it == unplaced_items[(k + 1) \div 2]
        IN  [item |-> it,
             rotation |-> IF k % 2 = 1
                          THEN <<it.length, it.width, it.height>>
                          ELSE <<it.width, it.length, it.height>>]]

C21_Step ==
    LoopIteration =>
        LET last == trace'[Len(trace')]
            passing == { k \in DOMAIN ScanPairs :
                           PassesAllFive(ScanPairs[k].item, last.point,
                                         ScanPairs[k].rotation) }
        IN  IF last.placed = <<>>
            THEN passing = {}
            ELSE /\ passing # {}
                 /\ \E k \in passing :
                       /\ \A j \in passing : k <= j
                       /\ last.placed[1].item = ScanPairs[k].item
                       /\ last.placed[1].rotation = ScanPairs[k].rotation
                       /\ last.placed[1].position = last.point

C21_FirstPassingPair == [][C21_Step]_vars

\* the committed pair is neither the first item of the backlog nor an
\* original orientation: earlier pairs of the scan were rejected
C21_Witness ==
    /\ pc = "running"
    /\ trace # <<>>
    /\ placed_items # <<>>
    /\ trace[Len(trace)].placed # <<>>
    /\ unplaced_items # <<>>
    /\ LET p == trace[Len(trace)].placed[1]
       IN  /\ p.rotation # <<p.item.length, p.item.width, p.item.height>>
           /\ \E k \in 1..Len(unplaced_items) :
                 \E j \in 1..Len(items) :
                   /\ items[j] = unplaced_items[k]
                   /\ TupleLess(PriorityKey(unplaced_items[k]), PriorityKey(p.item))

(* C22: add_point(point, priority) inserts the point only if it is not      *)
(* already open, consumed or blocked: a call either inserts a point that    *)
(* was in none of the three lists, with the given priority, or leaves the   *)
(* open, consumed and blocked lists and the stored priorities unchanged.    *)
InsertedNew(pm, after) ==
    \E point \in OpenPoints(after) :
        /\ point \notin Frontier(pm)
        /\ after.available_points = Append(pm.available_points, point)
        /\ after.used_points = pm.used_points
        /\ after.blocked_points = pm.blocked_points
        /\ \E priority \in ProbePriorities :
              after.point_priorities = DictSet(pm.point_priorities, point, priority)

C22_AddStep ==
    (pc = "done" /\ pc' = "probed") =>
        \/ point_manager' = point_manager
        \/ InsertedNew(point_manager, point_manager')

C22_AddDeduplicates == [][C22_AddStep]_vars

(* C23: during any packing run the open, consumed and blocked lists         *)
(* partition the points ever added (the keys of the priority dict): the     *)
(* three lists are pairwise disjoint, no point occurs twice within one of   *)
(* them, and together they hold exactly the points added, in every state.   *)
NoDuplicates(list) ==
    \A a, b \in 1..Len(list) : list[a] = list[b] => a = b

C23_FrontierPartition ==
    LET open == Range(point_manager.available_points)
        consumed == Range(point_manager.used_points)
        blocked == Range(point_manager.blocked_points)
    IN  /\ open \cap consumed = {}
        /\ open \cap blocked = {}
        /\ consumed \cap blocked = {}
        /\ NoDuplicates(point_manager.available_points)
        /\ NoDuplicates(point_manager.used_points)
        /\ NoDuplicates(point_manager.blocked_points)
        /\ open \cup consumed \cup blocked = DOMAIN point_manager.point_priorities

\* a loop is under way and each of the three lists holds points
C23_Witness ==
    /\ pc = "running"
    /\ Len(point_manager.available_points) >= 2
    /\ Len(point_manager.used_points) >= 2
    /\ Len(point_manager.blocked_points) >= 2

(* C24: blocking is permanent within the life of a packer: once a point is  *)
(* blocked it stays blocked, never becomes open again and is never          *)
(* consumed; when the successors of a placement are generated and added, a  *)
(* candidate with the coordinates of a blocked point is left out.           *)
SamePacker == ~(pc = "done" /\ pc' = "idle")

C24_Step ==
    SamePacker =>
        \A point \in Range(point_manager.blocked_points) :
            /\ point \in Range(point_manager'.blocked_points)
            /\ point \notin Range(point_manager'.available_points)
            /\ point \notin Range(point_manager'.used_points)

\* the successors of any placement made so far, generated and added in the
\* current state
C24_NotRegenerated ==
    \A i \in PlacedIdx :
        LET new_points == generate_new_points(point_manager, placed_items[i])
        IN  /\ Range(new_points) \cap Range(point_manager.blocked_points) = {}
            /\ OpenPoints(AddPoints(point_manager, new_points, 1))
                  \cap Range(point_manager.blocked_points) = {}

C24_BlockedForever == []C24_NotRegenerated /\ [][C24_Step]_vars

\* a point is blocked that is a successor candidate of a placed item, and
\* the loop has gone on after blocking it
C24_Witness ==
    /\ pc = "running"
    /\ Len(trace) >= 3
    /\ trace[Len(trace)].placed # <<>>
    /\ \E i \in PlacedIdx :
          Range(Candidates(placed_items[i]))
            \cap Range(point_manager.blocked_points) # {}

(* C25: a loop step in which no (item, orientation) passes at the popped    *)
(* point changes only the frontier: the point moves from open to blocked,   *)
(* no new point is added, and the placed list, the backlog and the placed   *)
(* lists of the collision, support and weight components are unchanged.     *)
C25_Step ==
    (LoopIteration /\ trace'[Len(trace')].placed = <<>>) =>
        LET point == trace'[Len(trace')].point
        IN  /\ point \in OpenPoints(point_manager)
            /\ OpenPoints(point_manager') = OpenPoints(point_manager) \ {point}
            /\ Len(point_manager'.available_points)
                  = Len(point_manager.available_points) - 1
            /\ point_manager'.blocked_points
                  = Append(point_manager.blocked_points, point)
            /\ point_manager'.used_points = point_manager.used_points
            /\ point_manager'.point_priorities = point_manager.point_priorities
            /\ placed_items' = placed_items
            /\ unplaced_items' = unplaced_items
            /\ collision_detector'.placed_items = collision_detector.placed_items
            /\ support_validator'.placed_items = support_validator.placed_items
            /\ weight_manager'.placed_items = weight_manager.placed_items

C25_FailedStepFrame == [][C25_Step]_vars

\* the last step blocked a point while items were placed and others wait
C25_Witness ==
    /\ pc = "running"
    /\ trace # <<>>
    /\ trace[Len(trace)].placed = <<>>
    /\ placed_items # <<>>
    /\ unplaced_items # <<>>
    /\ trace[Len(trace)].point
          = point_manager.blocked_points[Len(point_manager.blocked_points)]

(* C26: the successors of a placement at (x, y, z) with orientation         *)
(* (l, w, h) are exactly those of the candidates (x, y+w, z), (x, y, z+h),  *)
(* (x+l, y, z) that are not already open, consumed or blocked, in the order *)
(* [width, height, length], the height candidate being considered only for  *)
(* a stackable item; the step adds them to the open list in that order with *)
(* the priorities 1..k.                                                     *)
SuccessorCandidates(placed) ==
    LET x == placed.position[1]
        y == placed.position[2]
        z == placed.position[3]
        width == << <<x, y + placed.rotation[2], z>> >>
        height == IF placed.item.stackability = "stackable"
                  THEN << <<x, y, z + placed.rotation[3]>> >> ELSE <<>>
        length == << <<x + placed.rotation[1], y, z>> >>
    IN  width \o height \o length

\* the candidates that are new to a frontier in which the popped point has
\* become consumed
ExpectedSuccessors(pm, placed) ==
    SelectSeq(SuccessorCandidates(placed),
              LAMBDA c : c \notin Frontier(pm))

C26_Step ==
    (LoopIteration /\ trace'[Len(trace')].placed # <<>>) =>
        LET placed == trace'[Len(trace')].placed[1]
            expected == ExpectedSuccessors(point_manager, placed)
            k == Len(expected)
            n == Len(point_manager'.available_points)
        IN  /\ generate_new_points(
                  mark_point_used(point_manager, placed.position), placed)
                  = expected
            /\ n = Len(point_manager.available_points) - 1 + k
            /\ \A i \in 1..k :
                  /\ point_manager'.available_points[n - k + i] = expected[i]
                  /\ point_manager'.point_priorities[expected[i]] = i
            /\ OpenPoints(point_manager')
                  = (OpenPoints(point_manager) \ {placed.position})
                      \cup Range(expected)
            /\ \A q \in DOMAIN point_manager.point_priorities :
                  point_manager'.point_priorities[q]
                    = point_manager.point_priorities[q]

C26_Successors == [][C26_Step]_vars

\* the last placement, of a stackable item, had a candidate that was
\* discarded as known and two that were added
C26_Witness ==
    /\ pc = "running"
    /\ trace # <<>>
    /\ trace[Len(trace)].placed # <<>>
    /\ LET placed == trace[Len(trace)].placed[1]
           n == Len(point_manager.available_points)
       IN  /\ placed.item.stackability = "stackable"
           /\ n >= 3
           /\ point_manager.available_points[n]
                 = <<placed.position[1] + placed.rotation[1],
                     placed.position[2], placed.position[3]>>
           /\ point_manager.point_priorities[point_manager.available_points[n]] = 2
           /\ Len(point_manager.blocked_points) >= 1

(* C27: a successful placement step commits atomically: the item leaves the *)
(* backlog, the popped point moves from open to consumed, and the placement *)
(* is appended to the orchestrator's list and to all three constraint       *)
(* components, so that in every state the placed lists of the collision     *)
(* detector, the support validator and the weight manager each equal the    *)
(* orchestrator's placed list.                                              *)
C27_ListsAgree ==
    /\ collision_detector.placed_items = placed_items
    /\ support_validator.placed_items = placed_items
    /\ weight_manager.placed_items = placed_items

C27_Step ==
    (LoopIteration /\ trace'[Len(trace')].placed # <<>>) =>
        LET placed == trace'[Len(trace')].placed[1]
            point == trace'[Len(trace')].point
        IN  /\ placed.position = point
            /\ placed_items' = Append(placed_items, placed)
            /\ collision_detector'.placed_items
                  = Append(collision_detector.placed_items, placed)
            /\ support_validator'.placed_items
                  = Append(support_validator.placed_items, placed)
            /\ weight_manager'.placed_items
                  = Append(weight_manager.placed_items, placed)
            /\ \E k \in 1..Len(unplaced_items) :
                  /\ unplaced_items[k] = placed.item
                  /\ unplaced_items' =
                        [j \in 1..(Len(unplaced_items) - 1) |->
                            IF j < k THEN unplaced_items[j]
                            ELSE unplaced_items[j + 1]]
            /\ point \in OpenPoints(point_manager)
            /\ point \notin OpenPoints(point_manager')
            /\ point_manager'.used_points
                  = Append(point_manager.used_points, point)
            /\ point_manager'.blocked_points = point_manager.blocked_points

C27_AtomicCommit == []C27_ListsAgree /\ [][C27_Step]_vars

\* two placements were committed, the last one in the step just taken,
\* above the floor
C27_Witness ==
    /\ pc = "running"
    /\ Len(placed_items) >= 2
    /\ trace # <<>>
    /\ trace[Len(trace)].placed = <<placed_items[Len(placed_items)]>>
    /\ placed_items[Len(placed_items)].position[3] > 0
    /\ support_validator.placed_items = placed_items

(* C28: the box-overlap predicate returns true iff the two boxes overlap    *)
(* with positive extent on all three axes; boxes that only touch (one box's *)
(* max equals the other's min on some axis) do not collide, and the         *)
(* predicate is symmetric.  The boxes are those of the placed items and of  *)
(* every pair of the scan at the point to visit next.                       *)
OverlapExtent(b1, b2, a) ==
    (IF b1[2][a] <= b2[2][a] THEN b1[2][a] ELSE b2[2][a])
      - (IF b1[1][a] >= b2[1][a] THEN b1[1][a] ELSE b2[1][a])

PositiveOverlap(b1, b2) == \A a \in 1..3 : OverlapExtent(b1, b2, a) > 0

Touching(b1, b2) == \E a \in 1..3 : b1[2][a] = b2[1][a] \/ b2[2][a] = b1[1][a]

PlacedBoxes == { Bounds(placed_items[i]) : i \in PlacedIdx }

CandidateBoxes ==
    IF point_manager.available_points = <<>> THEN {}
    ELSE LET point == get_next_point(point_manager)
             pairs == ScanPairs
         IN  { << point, << point[1] + pairs[k].rotation[1],
                            point[2] + pairs[k].rotation[2],
                            point[3] + pairs[k].rotation[3] >> >> :
                 k \in DOMAIN pairs }

BoxOverlap ==
    LET placed == PlacedBoxes
        boxes == placed \cup CandidateBoxes
    IN  \A b1 \in boxes : \A b2 \in placed :
            LET collide == _aabb_collision(b1, b2)
            IN  /\ collide <=> PositiveOverlap(b1, b2)
                /\ Touching(b1, b2) => ~collide
                /\ collide <=> _aabb_collision(b2, b1)

C28_BoxOverlap == []BoxOverlap

\* at the point to visit next one candidate box lies flush against a placed
\* box and another one cuts into a placed box
C28_Witness ==
    /\ pc = "running"
    /\ \E b1 \in CandidateBoxes : \E b2 \in PlacedBoxes :
          Touching(b1, b2) /\ ~_aabb_collision(b1, b2)
             /\ \A a \in 1..3 : OverlapExtent(b1, b2, a) >= 0
    /\ \E b1 \in CandidateBoxes : \E b2 \in PlacedBoxes :
          _aabb_collision(b1, b2)

(* C29: the memoized collision check is equivalent to the uncached one: in  *)
(* every state each cached answer, and the answer of check_collision for    *)
(* every pair of the scan at the point to visit next, equals a fresh        *)
(* pairwise test of the candidate box against the current placed list.      *)
FreshTest(position, rotation) ==
    \E i \in 1..Len(collision_detector.placed_items) :
        _aabb_collision(
            << position, << position[1] + rotation[1],
                            position[2] + rotation[2],
                            position[3] + rotation[3] >> >>,
            Bounds(collision_detector.placed_items[i]))

C29_CacheTransparent ==
    /\ \A e \in collision_detector.collision_cache :
          e[2] <=> FreshTest(<<e[1][2], e[1][3], e[1][4]>>, e[1][5])
    /\ point_manager.available_points # <<>> =>
          LET point == get_next_point(point_manager)
              pairs == ScanPairs
          IN  \A k \in DOMAIN pairs :
                  check_collision(collision_detector, pairs[k].item, point,
                                  pairs[k].rotation)
                    <=> FreshTest(point, pairs[k].rotation)

\* the cache holds a positive and a negative answer about a placed list
\* that has grown since the packer was made
C29_Witness ==
    /\ pc = "running"
    /\ Len(collision_detector.placed_items) >= 2
    /\ \E e, f \in collision_detector.collision_cache : e[2] /\ ~f[2]

(* C30: the weight manager approves a candidate (item, position) iff        *)
(* (position.z = 0 or fewer than max_stack_height placed items have the     *)
(* same origin (x, y)) and (the weights of the placed items with the same   *)
(* origin (x, y) plus the candidate's weight are at most                    *)
(* max_weight_per_stack); items whose footprint merely overlaps the         *)
(* candidate's do not count.  The candidates are the items of the call at   *)
(* every point of the frontier.                                             *)
SameOrigin(point) ==
    { i \in PlacedIdx : /\ placed_items[i].position[1] = point[1]
                        /\ placed_items[i].position[2] = point[2] }

\* placed items whose footprint overlaps the footprint of the candidate
UnderFootprint(point, rotation) ==
    { i \in PlacedIdx :
        /\ placed_items[i].position[1] < point[1] + rotation[1]
        /\ point[1] < placed_items[i].position[1] + placed_items[i].rotation[1]
        /\ placed_items[i].position[2] < point[2] + rotation[2]
        /\ point[2] < placed_items[i].position[2] + placed_items[i].rotation[2] }

RECURSIVE WeightOf(_)
WeightOf(S) ==
    IF S = {} THEN 0
    ELSE LET i == CHOOSE j \in S : TRUE
         IN  placed_items[i].item.weight + WeightOf(S \ {i})

Approved(item, point, S) ==
    /\ point[3] = 0 \/ Cardinality(S) < 3
    /\ WeightOf(S) + item.weight <= 1000

WeightRule ==
    LET candidates == Range(items)
    IN  \A point \in Frontier(point_manager) :
            LET S == SameOrigin(point)
                count == Cardinality(S)
                weight == WeightOf(S)
            IN  \A item \in candidates :
                    validate_placement(weight_manager, item, point,
                                       <<item.length, item.width, item.height>>)
                      <=> /\ point[3] = 0 \/ count < 3
                          /\ weight + item.weight <= 1000

C30_WeightRule == []WeightRule

\* a candidate the manager approves although the items under its footprint,
\* standing at other origins, would break the limits if they counted
C30_Witness ==
    /\ pc = "running"
    /\ \E k \in 1..Len(unplaced_items) :
          \E point \in OpenPoints(point_manager) :
            LET item == unplaced_items[k]
                rotation == <<item.length, item.width, item.height>>
            IN  /\ point[3] > 0
                /\ validate_placement(weight_manager, item, point, rotation)
                /\ ~Approved(item, point, UnderFootprint(point, rotation))

(* C31: an unstackable item occupies its full width lane for its length:    *)
(* after an unstackable item is placed, no other item is ever placed beside *)
(* it along the width axis with an x-range that overlaps the unstackable    *)
(* item's length span.                                                      *)
BesideInLane(p, q) ==
    /\ q.position[1] < p.position[1] + p.rotation[1]
    /\ p.position[1] < q.position[1] + q.rotation[1]
    /\ \/ q.position[2] >= p.position[2] + p.rotation[2]
       \/ q.position[2] + q.rotation[2] <= p.position[2]

C31_WidthLaneKept ==
    \A i \in PlacedIdx : \A j \in PlacedIdx :
        (i < j /\ placed_items[i].item.stackability = UNSTACKABLE)
            => ~BesideInLane(placed_items[i], placed_items[j])

(* C32: every placed item's chosen orientation is (length, width, height)   *)
(* or (width, length, height) of its item; the height component of the      *)
(* orientation equals the item's height, whatever the item's flags are.     *)
C32_HeightNeverRotates ==
    \A i \in PlacedIdx :
        LET item == placed_items[i].item
            rotation == placed_items[i].rotation
        IN  /\ rotation \in { <<item.length, item.width, item.height>>,
                              <<item.width, item.length, item.height>> }
            /\ rotation[3] = item.height

\* an item whose height differs from its width and whose can_rotate flag is
\* off lies placed with length and width swapped
C32_Witness ==
    \E i \in PlacedIdx :
        LET item == placed_items[i].item
        IN  /\ ~item.can_rotate
            /\ item.length # item.width
            /\ item.height # item.width
            /\ placed_items[i].rotation
                 = <<item.width, item.length, item.height>>

(* C33: the placed list is append-only: at every step taken on a packer it  *)
(* is either unchanged or the previous list extended by exactly one new     *)
(* placement; no earlier placement is removed, reordered or has its         *)
(* position or orientation changed.                                         *)
C33_Step ==
    SamePacker =>
        \/ placed_items' = placed_items
        \/ /\ Len(placed_items') = Len(placed_items) + 1
           /\ SubSeq(placed_items', 1, Len(placed_items)) = placed_items
           /\ LoopIteration
           /\ trace'[Len(trace')].placed
                 = <<placed_items'[Len(placed_items')]>>

C33_AppendOnly == [][C33_Step]_vars

\* in one run a point was blocked, leaving the list alone, and two
\* placements were appended, the later one by the last step
C33_Witness ==
    /\ pc = "running"
    /\ Len(placed_items) >= 2
    /\ \E n \in 1..Len(trace) : trace[n].placed = <<>>
    /\ trace[Len(trace)].placed = <<placed_items[Len(placed_items)]>>
    /\ placed_items[Len(placed_items)] # placed_items[1]

(* C34: the unplaced backlog keeps the order computed at the start of the   *)
(* run: during and after a run it is the initially sorted list with exactly *)
(* the items placed so far in this run deleted, in unchanged order.         *)
PlacedInRun ==
    { trace[n].placed[1].item :
        n \in { m \in 1..Len(trace) : trace[m].placed # <<>> } }

BacklogInOrder ==
    pc \in {"running", "done"} =>
        LET placed == PlacedInRun
        IN  unplaced_items =
                SelectSeq(_sort_items_by_priority(items),
                          LAMBDA item : item \notin placed)

C34_BacklogOrder == []BacklogInOrder

\* an item was placed from behind one that is still waiting, and another
\* one waits behind both
C34_Witness ==
    /\ pc = "running"
    /\ LET sorted == _sort_items_by_priority(items)
       IN  \E a, b, c \in 1..Len(sorted) :
              /\ a < b /\ b < c
              /\ sorted[b] \in PlacedInRun
              /\ InList(sorted[a], unplaced_items)
              /\ InList(sorted[c], unplaced_items)

(* C35: the points popped during a run are strictly increasing in the scan  *)
(* key (x, z, y): a point popped after another one of the same run has a    *)
(* strictly greater scan key, is a different point, and does not lie at a   *)
(* smaller x; and no two open points ever share a scan key, so that the     *)
(* explicit priority never decides between them.                            *)
SweepKey(p) == <<round6(p[1]), round6(p[3]), round6(p[2])>>

C35_NoTie ==
    \A p, q \in OpenPoints(point_manager) : SweepKey(p) = SweepKey(q) => p = q

C35_Step ==
    (LoopIteration /\ trace # <<>>) =>
        LET before == trace[Len(trace)].point
            now == trace'[Len(trace')].point
        IN  /\ TupleLess(SweepKey(before), SweepKey(now))
            /\ before[1] <= now[1]
            /\ \A n \in 1..Len(trace) : ~PointEq(trace[n].point, now)

C35_PopsIncrease == []C35_NoTie /\ [][C35_Step]_vars

(* C36: after every step the consumed points are exactly the origins of    *)
(* the placed items, one consumed point for each placement; no two placed   *)
(* items share an origin; and the three point lists together hold at most   *)
(* 1 + 3 * |placed| entries.                                                *)
Origins == [i \in 1..Len(placed_items) |-> placed_items[i].position]

ListedPoints(pm) ==
    Len(pm.available_points) + Len(pm.used_points) + Len(pm.blocked_points)

C36_PointLedger ==
    LET origins == Origins
    IN  /\ Len(point_manager.used_points) = Len(placed_items)
        /\ Range(point_manager.used_points) = Range(origins)
        /\ \A i, j \in 1..Len(origins) :
               i # j => ~PointEq(origins[i], origins[j])
        /\ ListedPoints(point_manager) <= 1 + 3 * Len(placed_items)

\* two placements and a blocked point, with the bound on the lists attained
C36_Witness ==
    /\ Len(placed_items) >= 2
    /\ point_manager.blocked_points # <<>>
    /\ ListedPoints(point_manager) = 1 + 3 * Len(placed_items)

(* C37: the placed items whose top faces lie at one height have pairwise    *)
(* disjoint top faces (interiors), and so, for every candidate (an open     *)
(* point, an item of the call and one of its rotations), the summed         *)
(* supported area is the area of its footprint that the faces cover, and    *)
(* at most the area of the footprint.                                       *)
TopHeights ==
    { support_validator.placed_items[i].position[3]
          + support_validator.placed_items[i].rotation[3] :
        i \in 1..Len(support_validator.placed_items) }

\* the intervals overlap in more than an end point
Overlap1D(lo1, hi1, lo2, hi2) == Max2(lo1, lo2) < Min2(hi1, hi2)

FacesOverlap(a, b) ==
    /\ Overlap1D(a[1][1], a[2][1], b[1][1], b[2][1])
    /\ Overlap1D(a[1][2], a[2][2], b[1][2], b[2][2])

\* the cuts of the interval lo..hi at the ends of the faces
Cuts(lo, hi, axis, surfaces) ==
    {lo, hi} \cup { v \in { surfaces[i][k][axis] :
                              i \in 1..Len(surfaces), k \in 1..2 } :
                        lo < v /\ v < hi }

NextCut(v, cuts) == CHOOSE c \in cuts : c > v /\ \A d \in cuts : d > v => c <= d

RECURSIVE CellArea(_, _, _)
CellArea(cells, xs, ys) ==
    IF cells = {} THEN 0
    ELSE LET c == CHOOSE d \in cells : TRUE
         IN  (NextCut(c[1], xs) - c[1]) * (NextCut(c[2], ys) - c[2])
                 + CellArea(cells \ {c}, xs, ys)

\* the area of the footprint that lies on at least one of the faces
CoveredArea(position, rotation, surfaces) ==
    LET x1 == position[1] + rotation[1]
        y1 == position[2] + rotation[2]
        xs == Cuts(position[1], x1, 1, surfaces)
        ys == Cuts(position[2], y1, 2, surfaces)
        cells == { c \in (xs \ {x1}) \X (ys \ {y1}) :
                     \E i \in 1..Len(surfaces) :
                         /\ surfaces[i][1][1] <= c[1] /\ c[1] < surfaces[i][2][1]
                         /\ surfaces[i][1][2] <= c[2] /\ c[2] < surfaces[i][2][2] }
    IN  CellArea(cells, xs, ys)

\* a candidate whose base height is the top of no placed item has no face
\* under it and its sum is empty
NoDoubleCount ==
    LET points == OpenPoints(point_manager)
        heights == TopHeights
        rotations == { get_rotations(item)[r] :
                         item \in Range(items), r \in 1..2 }
    IN  /\ \A height \in heights :
               LET faces == _get_support_surface(support_validator, height)
               IN  /\ faces # <<>>
                   /\ \A i, j \in 1..Len(faces) :
                          i < j => ~FacesOverlap(faces[i], faces[j])
                   /\ \A point \in { p \in points : p[3] = height } :
                          \A rotation \in rotations :
                              LET supported_area ==
                                      SupportedArea(point, rotation, faces)
                              IN  /\ supported_area
                                         <= rotation[1] * rotation[2]
                                  /\ supported_area
                                         = CoveredArea(point, rotation, faces)
        /\ \A height \in { p[3] : p \in points } \ heights :
               _get_support_surface(support_validator, height) = <<>>

C37_NoDoubleCount == []NoDoubleCount

\* a candidate above the floor whose footprint lies on two faces
C37_Witness ==
    \E point \in OpenPoints(point_manager) :
        /\ point[3] > 0
        /\ LET faces == _get_support_surface(support_validator, point[3])
           IN  \E item \in Range(items) : \E r \in 1..2 :
                   LET rotation == get_rotations(item)[r]
                       b == << point, <<point[1] + rotation[1],
                                        point[2] + rotation[2], point[3]>> >>
                   IN  \E i, j \in 1..Len(faces) :
                           /\ i # j
                           /\ _calculate_intersection_area(b, faces[i]) > 0
                           /\ _calculate_intersection_area(b, faces[j]) > 0

(* C38: an item whose own weight exceeds the maximum weight per stack is   *)
(* rejected at every point, floor points of an empty container included:   *)
(* the weight manager refuses it, no attempt to place it succeeds, it is    *)
(* never among the placed items, and when the call is over it is in the     *)
(* unplaced list.                                                           *)
TooHeavy(item) == item.weight > max_weight_per_stack

FloorCorner == <<0, 0, 0>>

TooHeavyRejected ==
    LET heavy == { item \in Range(items) : TooHeavy(item) }
        points == Frontier(point_manager) \cup {FloorCorner}
    IN  /\ \A item \in heavy : \A point \in points : \A r \in 1..2 :
               LET rotation == get_rotations(item)[r]
               IN  /\ ~validate_placement(weight_manager, item, point,
                                          rotation)
                   /\ _attempt_placement(truck_dimensions, collision_detector,
                          support_validator, weight_manager, item, point,
                          rotation) # "ok"
        /\ \A i \in 1..Len(placed_items) : ~TooHeavy(placed_items[i].item)
        /\ pc \in {"running", "done"} =>
               \A item \in heavy : InList(item, unplaced_items)

C38_TooHeavyRejected == []TooHeavyRejected

\* a call is over with the container empty, and an item that fits the
\* container but is too heavy has stayed unplaced
C38_Witness ==
    /\ pc = "done"
    /\ placed_items = <<>>
    /\ \E item \in Range(items) :
           /\ TooHeavy(item)
           /\ InList(item, unplaced_items)
           /\ _check_geometric_constraints(truck_dimensions, item, FloorCorner,
                                           get_rotations(item)[1])

====
